---------------------------- MODULE Spec2Model ----------------------------
(* Line transposition scripts of onewriter-actions, run against a model   *)
(* of the 1Writer editor object declared in onewriter.d.ts.               *)
(*                                                                        *)
(* The buffer is a sequence of one-character strings, offsets are         *)
(* zero-based as in JavaScript, ranges are half-open [s, e).              *)
EXTENDS Integers, Sequences, FiniteSets, TLC

VARIABLES text, sel, calls, script, pre, pre2, text0, runs, hostInclNL

vars == <<text, sel, calls, script, pre, pre2, text0, runs, hostInclNL>>

(* ------------------------------ bounds -------------------------------- *)
MaxLen == 4
MaxRuns == 2

NL == "\n"
Chars == {"a", "b", NL}

Min(a, b) == IF a < b THEN a ELSE b
Max(a, b) == IF a > b THEN a ELSE b

Buffers == UNION {[1..n -> Chars] : n \in 0..MaxLen}

(* --------------------- JavaScript string helpers ---------------------- *)
(* String.prototype.lastIndexOf(ch, from): from is clamped to [0, length] *)
lastIndexOf(t, ch, from) ==
  LET f == Min(Max(from, 0), Len(t))
      hits == {k \in 0..(Len(t) - 1) : k <= f /\ t[k + 1] = ch}
  IN IF hits = {} THEN -1 ELSE CHOOSE k \in hits : \A j \in hits : j <= k

(* String.prototype.indexOf(ch, from): from is clamped to [0, length]     *)
indexOf(t, ch, from) ==
  LET f == Min(Max(from, 0), Len(t))
      hits == {k \in 0..(Len(t) - 1) : k >= f /\ t[k + 1] = ch}
  IN IF hits = {} THEN -1 ELSE CHOOSE k \in hits : \A j \in hits : k <= j

(* ------------------------------ the host ------------------------------ *)
(* What the editor does with a range that is not 0 <= s <= e <= length is *)
(* not declared: it may raise, clamp the range, or reorder its ends.      *)
InvalidRangeOutcomes == {"throw", "clamp", "swap"}

Valid(t, s, e) == 0 <= s /\ s <= e /\ e <= Len(t)

Clamp(t, x) == Min(Max(x, 0), Len(t))

Throws(t, s, e, pol) == ~Valid(t, s, e) /\ pol = "throw"

EffRange(t, s, e, pol) ==
  IF Valid(t, s, e) THEN <<s, e>>
  ELSE IF pol = "swap"
       THEN <<Min(Clamp(t, s), Clamp(t, e)), Max(Clamp(t, s), Clamp(t, e))>>
       ELSE <<Clamp(t, s), Max(Clamp(t, s), Clamp(t, e))>>

getTextInRange(t, s, e, pol) ==
  LET r == EffRange(t, s, e, pol) IN SubSeq(t, r[1] + 1, r[2])

replaceTextInRange(t, s, e, replacement, pol) ==
  LET r == EffRange(t, s, e, pol)
  IN SubSeq(t, 1, r[1]) \o replacement \o SubSeq(t, r[2] + 1, Len(t))

setSelectedRange(t, s, e, pol) == EffRange(t, s, e, pol)

(* The range of the lines that include the selection s = <<from, to>>.    *)
(* incl tells whether the host counts the closing newline of the last     *)
(* line as part of the range.                                             *)
getSelectedLineRange(t, s, incl) ==
  LET start == CHOOSE k \in 0..s[1] :
                 /\ k = 0 \/ t[k] = NL
                 /\ \A j \in (k + 1)..s[1] : t[j] # NL
      eol == CHOOSE k \in s[2]..Len(t) :
                 /\ k = Len(t) \/ t[k + 1] = NL
                 /\ \A j \in s[2]..(k - 1) : t[j + 1] # NL
  IN <<start, IF incl /\ eol < Len(t) THEN eol + 1 ELSE eol>>

Call(o, s, e) == [op |-> o, s |-> s, e |-> e]

Result(t, s, k) == [text |-> t, sel |-> s, calls |-> k]

(* ----------------------- Move Up Current Line.js ---------------------- *)
(* The boundary test left out.                                            *)
MoveUpGuardMissing(prevEnd) == TRUE

MoveUpGuard(prevEnd) == prevEnd > 0

(* The backward search started on the newline that closes the previous    *)
(* line instead of before it.                                             *)
PrevStartFromPrevEnd(t, prevEnd) ==
  LET found == lastIndexOf(t, NL, prevEnd)
  IN IF found = -1 THEN 0 ELSE found + 1

(* The newline found by the backward search taken as the line start.      *)
PrevStartOnNewline(t, prevEnd) ==
  LET found == lastIndexOf(t, NL, prevEnd - 1)
  IN IF found = -1 THEN 0 ELSE found

PrevStart(t, prevEnd) ==
  LET found == lastIndexOf(t, NL, prevEnd - 1)
  IN IF found = -1 THEN 0 ELSE found + 1

(* The two lines joined without the newline between them.                 *)
MoveUpReplacementUnjoined(currentLine, prevLine) == currentLine \o prevLine

MoveUpReplacement(currentLine, prevLine) == currentLine \o <<NL>> \o prevLine

(* The run with the caret moved before the buffer is changed.             *)
MoveUpRunCaretFirst(t, s, incl, pol, c) ==
  LET lr == getSelectedLineRange(t, s, incl)
      start == lr[1]
      end == lr[2]
      k1 == <<Call("getSelectedLineRange", 0, 0),
              Call("getTextInRange", start, end)>>
      currentLine == getTextInRange(t, start, end, pol)
      k2 == Append(k1, Call("getText", 0, 0))
      prevEnd == start - 1
  IN IF ~(prevEnd > 0) THEN Result(t, s, k2)
     ELSE
     LET found == lastIndexOf(t, NL, prevEnd - 1)
         prevStart == IF found = -1 THEN 0 ELSE found + 1
         prevLine == getTextInRange(t, prevStart, prevEnd, pol)
         k5 == k2 \o <<Call("getTextInRange", prevStart, prevEnd),
                        Call("setSelectedRange", prevStart, prevStart),
                        Call("replaceTextInRange", prevStart, end)>>
         t2 == replaceTextInRange(t, prevStart, end,
                  currentLine \o <<NL>> \o prevLine, pol)
     IN Result(t2, <<Clamp(t2, c), Clamp(t2, c)>>, k5)

(* One run of the script on buffer t with selection s.  pol is the host's *)
(* answer to an invalid range, c the caret the host leaves behind after   *)
(* replaceTextInRange.  The result is the buffer, the selection and the   *)
(* host calls made, in order.                                             *)
MoveUpRun(t, s, incl, pol, c) ==
  LET lr == getSelectedLineRange(t, s, incl)
      start == lr[1]
      end == lr[2]
      k1 == <<Call("getSelectedLineRange", 0, 0),
              Call("getTextInRange", start, end)>>
  IN IF Throws(t, start, end, pol) THEN Result(t, s, k1)
     ELSE
     LET currentLine == getTextInRange(t, start, end, pol)
         k2 == Append(k1, Call("getText", 0, 0))
         prevEnd == start - 1
     IN IF ~MoveUpGuard(prevEnd) THEN Result(t, s, k2)
        ELSE
        LET prevStart == PrevStart(t, prevEnd)
            k3 == Append(k2, Call("getTextInRange", prevStart, prevEnd))
        IN IF Throws(t, prevStart, prevEnd, pol) THEN Result(t, s, k3)
           ELSE
           LET prevLine == getTextInRange(t, prevStart, prevEnd, pol)
               k4 == Append(k3, Call("replaceTextInRange", prevStart, end))
           IN IF Throws(t, prevStart, end, pol) THEN Result(t, s, k4)
              ELSE
              LET t2 == replaceTextInRange(t, prevStart, end,
                          MoveUpReplacement(currentLine, prevLine), pol)
                  k5 == Append(k4, Call("setSelectedRange", prevStart, prevStart))
                  left == <<Clamp(t2, c), Clamp(t2, c)>>
              IN IF Throws(t2, prevStart, prevStart, pol)
                 THEN Result(t2, left, k5)
                 ELSE Result(t2, setSelectedRange(t2, prevStart, prevStart, pol), k5)

(* ---------------------- Move Down Current Line.js --------------------- *)
(* The boundary test left out.                                            *)
MoveDownGuardMissing(t, nextStart) == TRUE

MoveDownGuard(t, nextStart) == nextStart < Len(t)

NextEnd(t, nextStart) ==
  LET found == indexOf(t, NL, nextStart)
  IN IF found = -1 THEN Len(t) ELSE found

MoveDownReplacement(nextLine, currentLine) == nextLine \o <<NL>> \o currentLine

MoveDownRun(t, s, incl, pol, c) ==
  LET lr == getSelectedLineRange(t, s, incl)
      start == lr[1]
      end == lr[2]
      k1 == <<Call("getSelectedLineRange", 0, 0),
              Call("getTextInRange", start, end)>>
  IN IF Throws(t, start, end, pol) THEN Result(t, s, k1)
     ELSE
     LET currentLine == getTextInRange(t, start, end, pol)
         k2 == Append(k1, Call("getText", 0, 0))
         nextStart == end + 1
     IN IF ~MoveDownGuard(t, nextStart) THEN Result(t, s, k2)
        ELSE
        LET nextEnd == NextEnd(t, nextStart)
            k3 == Append(k2, Call("getTextInRange", nextStart, nextEnd))
        IN IF Throws(t, nextStart, nextEnd, pol) THEN Result(t, s, k3)
           ELSE
           LET nextLine == getTextInRange(t, nextStart, nextEnd, pol)
               k4 == Append(k3, Call("replaceTextInRange", start, nextEnd))
           IN IF Throws(t, start, nextEnd, pol) THEN Result(t, s, k4)
              ELSE
              LET t2 == replaceTextInRange(t, start, nextEnd,
                          MoveDownReplacement(nextLine, currentLine), pol)
              IN Result(t2, <<Clamp(t2, c), Clamp(t2, c)>>, k4)

(* ------------- select line without trailing newline (4f0e3) ----------- *)
TrimRun(t, s, incl, pol) ==
  LET lr == getSelectedLineRange(t, s, incl)
      start == lr[1]
      end == lr[2]
      eol0 == start + end
      k1 == <<Call("getSelectedLineRange", 0, 0),
              Call("getTextInRange", eol0 - 1, 1)>>
  IN IF Throws(t, eol0 - 1, 1, pol) THEN Result(t, s, k1)
     ELSE
     LET eol == IF getTextInRange(t, eol0 - 1, 1, pol) = <<NL>>
                THEN eol0 - 1 ELSE eol0
         k2 == Append(k1, Call("setSelectedRange", start, eol - start))
     IN IF Throws(t, start, eol - start, pol) THEN Result(t, s, k2)
        ELSE Result(t, setSelectedRange(t, start, eol - start, pol), k2)

(* ----------------------------- state machine -------------------------- *)
Snapshot(sc, t, s) == [script |-> sc, text |-> t, sel |-> s]

InitCommon ==
  /\ text \in Buffers
  /\ \E c \in 0..Len(text) : sel = <<c, c>>
  /\ calls = <<>>
  /\ script = "none"
  /\ pre = Snapshot("none", text, sel)
  /\ pre2 = Snapshot("none", text, sel)
  /\ text0 = text
  /\ runs = 0

Finish(name, r) ==
  /\ text' = r.text
  /\ sel' = r.sel
  /\ calls' = r.calls
  /\ script' = name
  /\ pre' = Snapshot(script, text, sel)
  /\ pre2' = pre
  /\ runs' = runs + 1
  /\ UNCHANGED <<text0, hostInclNL>>

MoveUp ==
  /\ runs < MaxRuns
  /\ \E pol \in InvalidRangeOutcomes, c \in 0..MaxLen :
       Finish("MoveUp", MoveUpRun(text, sel, hostInclNL, pol, c))

MoveDown ==
  /\ runs < MaxRuns
  /\ \E pol \in InvalidRangeOutcomes, c \in 0..MaxLen :
       Finish("MoveDown", MoveDownRun(text, sel, hostInclNL, pol, c))

Trim ==
  /\ runs < MaxRuns
  /\ \E pol \in InvalidRangeOutcomes :
       Finish("Trim", TrimRun(text, sel, hostInclNL, pol))

(* The transposition scripts, on a host whose line range leaves out the   *)
(* closing newline.                                                       *)
Init == InitCommon /\ hostInclNL = FALSE

Next == MoveUp \/ MoveDown

Spec == Init /\ [][Next]_vars

(* The trim script, on either host convention.                            *)
InitTrim == InitCommon /\ hostInclNL \in BOOLEAN

NextTrim == Trim

SpecTrim == InitTrim /\ [][NextTrim]_vars

(* --------------------- vocabulary of the properties ------------------- *)
(* The lines of a buffer: maximal substrings between newlines or buffer   *)
(* edges, empty ones included.                                            *)
RECURSIVE Lines(_)
Lines(t) ==
  IF \A k \in 1..Len(t) : t[k] # NL THEN <<t>>
  ELSE LET k == CHOOSE k \in 1..Len(t) :
                  t[k] = NL /\ \A j \in 1..(k - 1) : t[j] # NL
       IN <<SubSeq(t, 1, k - 1)>> \o Lines(SubSeq(t, k + 1, Len(t)))

RECURSIVE Join(_)
Join(ls) ==
  IF Len(ls) = 1 THEN ls[1] ELSE ls[1] \o <<NL>> \o Join(Tail(ls))

(* Zero-based index of the line holding offset off.                       *)
LineIndex(t, off) == Cardinality({k \in 1..off : t[k] = NL})

(* Offset at which the line with zero-based index i starts.               *)
RECURSIVE LineOffset(_, _)
LineOffset(ls, i) ==
  IF i = 0 THEN 0 ELSE LineOffset(ls, i - 1) + Len(ls[i]) + 1

(* ls with the lines at one-based positions i and j exchanged.            *)
SwapLines(ls, i, j) ==
  [k \in 1..Len(ls) |-> IF k = i THEN ls[j] ELSE IF k = j THEN ls[i] ELSE ls[k]]

Occurrences(ls, l) == Cardinality({k \in 1..Len(ls) : ls[k] = l})

Newlines(t) == Cardinality({k \in 1..Len(t) : t[k] = NL})

Mutating(k) == k.op \in {"replaceTextInRange", "setSelectedRange"}

RangeCall(k) == k.op \in {"getTextInRange", "replaceTextInRange"}

Ops(o) == SelectSeq(calls, LAMBDA k : k.op = o)

PreLines == Lines(pre.text)

PreLine == LineIndex(pre.text, pre.sel[1])

(* C1: Move Up Current Line with the caret on a line i > 0 yields the     *)
(* original buffer with lines i-1 and i swapped, of the same length, and  *)
(* the caret collapsed at the old start offset of line i-1.               *)
C1_MoveUpSwapsWithPrevious ==
  (script = "MoveUp" /\ PreLine > 0) =>
     /\ text = Join(SwapLines(PreLines, PreLine, PreLine + 1))
     /\ Len(text) = Len(pre.text)
     /\ sel = <<LineOffset(PreLines, PreLine - 1), LineOffset(PreLines, PreLine - 1)>>

(* C2: Move Down Current Line with the caret on a line that is not the    *)
(* last one replaces [start, nextEnd) by the next line, a newline and the *)
(* current line: the buffer is the original with these two lines swapped. *)
C2_MoveDownSwapsWithNext ==
  (script = "MoveDown" /\ PreLine < Len(PreLines) - 1) =>
     /\ text = Join(SwapLines(PreLines, PreLine + 1, PreLine + 2))
     /\ Ops("replaceTextInRange") =
          <<Call("replaceTextInRange", LineOffset(PreLines, PreLine),
                 LineOffset(PreLines, PreLine + 1) + Len(PreLines[PreLine + 2]))>>

(* C3: Move Up Current Line from a line i > 0 followed by Move Down       *)
(* Current Line with the caret where Move Up left it restores the         *)
(* content of the buffer.                                                 *)
C3_UpThenDownRestores ==
  (script = "MoveDown" /\ pre.script = "MoveUp"
     /\ LineIndex(pre2.text, pre2.sel[1]) > 0) => text = pre2.text

(* C4: Move Up Current Line with the caret on the first line calls        *)
(* neither replaceTextInRange nor setSelectedRange and leaves buffer and  *)
(* selection as they were.                                                *)
C4_MoveUpOnFirstLineIsNoOp ==
  (script = "MoveUp" /\ PreLine = 0) =>
     /\ text = pre.text
     /\ sel = pre.sel
     /\ \A i \in 1..Len(calls) : ~Mutating(calls[i])

C4_Witness ==
  script = "MoveUp" /\ PreLine = 0 /\ Len(PreLines) >= 2 /\ pre.sel[1] > 0

(* C5: Move Down Current Line with the caret on the last line makes no    *)
(* replaceTextInRange call and leaves the buffer as it was.               *)
C5_MoveDownOnLastLineIsNoOp ==
  (script = "MoveDown" /\ PreLine = Len(PreLines) - 1) =>
     /\ text = pre.text
     /\ Ops("replaceTextInRange") = <<>>

C5_Witness ==
  script = "MoveDown" /\ PreLine = Len(PreLines) - 1 /\ Len(PreLines) >= 2
     /\ pre.sel[1] < Len(pre.text)

(* C6: the trim script selects the host's line range without its closing  *)
(* newline when the text of that range ends in a newline, and the host's  *)
(* line range itself when it does not.                                    *)
C6_TrimDropsTrailingNewline ==
  (script = "Trim" /\ pre.script = "none") =>
     LET lr == getSelectedLineRange(pre.text, pre.sel, hostInclNL)
     IN IF lr[2] > lr[1] /\ pre.text[lr[2]] = NL
        THEN sel = <<lr[1], lr[2] - 1>>
        ELSE sel = lr

(* C7: after any sequence of Move Up and Move Down runs the buffer has    *)
(* its initial length and the selection lies inside the buffer.           *)
C7_LengthAndCaretPreserved ==
  /\ Len(text) = Len(text0)
  /\ 0 <= sel[1] /\ sel[1] <= sel[2] /\ sel[2] <= Len(text)

C7_Witness ==
  script = "MoveDown" /\ pre.script = "MoveUp"
     /\ text # pre.text /\ pre.text # pre2.text

(* C8: a run of Move Up makes either no mutating host call or, after all  *)
(* its reads, one replaceTextInRange followed by one setSelectedRange at  *)
(* the start of the replaced range; a run of Move Down makes at most one  *)
(* replaceTextInRange call and no setSelectedRange call.                  *)
C8_HostCallOrder ==
  /\ script = "MoveUp" =>
       LET n == Len(calls)
       IN \/ \A i \in 1..n : ~Mutating(calls[i])
          \/ /\ n >= 2
             /\ calls[n - 1].op = "replaceTextInRange"
             /\ calls[n] = Call("setSelectedRange", calls[n - 1].s, calls[n - 1].s)
             /\ \A i \in 1..(n - 2) : ~Mutating(calls[i])
  /\ script = "MoveDown" =>
       /\ Len(Ops("replaceTextInRange")) <= 1
       /\ Ops("setSelectedRange") = <<>>
       /\ \A i \in 1..(Len(calls) - 1) : ~Mutating(calls[i])

C8_Witness ==
  /\ script = "MoveUp" /\ Len(Ops("replaceTextInRange")) = 1
  /\ pre.script = "MoveDown" /\ pre.text # pre2.text

(* C9: every range a run of Move Up or Move Down passes to getTextInRange *)
(* or replaceTextInRange satisfies 0 <= s <= e <= buffer length.          *)
C9_RangesValid ==
  \A i \in 1..Len(calls) :
     RangeCall(calls[i]) => Valid(pre.text, calls[i].s, calls[i].e)

C9_Witness ==
  /\ script = "MoveUp"
  /\ \E i \in 1..Len(calls) :
        calls[i].op = "getTextInRange" /\ calls[i].s = calls[i].e /\ calls[i].s > 0
  /\ Ops("replaceTextInRange") # <<>>

(* C10: after any sequence of Move Up and Move Down runs the buffer has   *)
(* as many newlines as initially and the same lines with the same         *)
(* multiplicities.                                                        *)
C10_LinesPermuted ==
  /\ Newlines(text) = Newlines(text0)
  /\ \A l \in {Lines(text)[k] : k \in 1..Len(Lines(text))}
              \cup {Lines(text0)[k] : k \in 1..Len(Lines(text0))} :
        Occurrences(Lines(text), l) = Occurrences(Lines(text0), l)

C10_Witness ==
  runs = 2 /\ text # pre.text /\ pre.text # text0 /\ text # text0

==========================================================================
